---- MODULE Spec2Model ----
(***************************************************************************)
(* State-machine model of the oscilloscope acquisition backend             *)
(* (src/src-tauri/src/lib.rs): the adc::PacketProcessor frame decoder and  *)
(* trigger gate, the logger::Logger recording sink, the shared display     *)
(* BUFFER, the serial worker thread and the four IPC command handlers.     *)
(*                                                                         *)
(* Voltages are exact in the source: (raw as i16 as f32) * (10/32768) is   *)
(* a 16-bit integer times 10 * 2^-15 and fits an f32 mantissa.  The model  *)
(* keeps a voltage as the integer number of 1/32768 V, i.e. i16(raw) * 10. *)
(* AdcSample.timestamp (a wall-clock reading) is not modelled.             *)
(***************************************************************************)
EXTENDS Integers, Sequences, FiniteSets, TLC

\* ------------------------------------------------------------------------
\* adc: protocol constants
\* ------------------------------------------------------------------------
START_BYTE == 170
STOP_BYTE == 85
TRIGGER_BYTE == 204

\* [bool; 4] arrays are indexed 0..3 as in the source.
Channels == 0..3

\* ------------------------------------------------------------------------
\* adc::PacketProcessor: pure parts
\* ------------------------------------------------------------------------

\* The raw value taken as an unsigned number.
AsU16(raw) == raw

\* `raw_data as i16`: two's-complement reinterpretation of a u16.
AsI16(raw) == IF raw >= 32768 THEN raw - 65536 ELSE raw

\* `(raw_data as i16 as f32) * (10.0 / 32768.0)`, in units of 1/32768 V.
Voltage(raw) == AsI16(raw) * 10

\* decode_packet with the two value bytes composed in the wrong order.
decode_packet_swapped(packet) ==
    IF packet[1] # START_BYTE \/ packet[Len(packet)] # STOP_BYTE
    THEN <<>>
    ELSE LET channel == packet[2] % 4
             raw_data == ((packet[4] * 256) % 65536) + packet[3]
             is_trigger == Len(packet) > 5 /\ packet[5] = TRIGGER_BYTE
         IN  << [channel |-> channel,
                 raw_value |-> raw_data,
                 voltage |-> Voltage(raw_data),
                 is_trigger |-> is_trigger] >>

\* PacketProcessor::decode_packet: <<>> models None, <<sample>> models Some.
decode_packet(packet) ==
    IF packet[1] # START_BYTE \/ packet[Len(packet)] # STOP_BYTE
    THEN <<>>
    ELSE LET channel == packet[2] % 4
             raw_data == ((packet[3] * 256) % 65536) + packet[4]
             is_trigger == Len(packet) > 5 /\ packet[5] = TRIGGER_BYTE
         IN  << [channel |-> channel,
                 raw_value |-> raw_data,
                 voltage |-> Voltage(raw_data),
                 is_trigger |-> is_trigger] >>

\* The trigger test ignoring the flag decoded from the frame.
IsTriggerPointNoWire(sample, trig) ==
    IF trig.enabled /\ sample.channel = trig.channel
    THEN IF trig.rising_edge
         THEN sample.voltage > trig.level
         ELSE sample.voltage < trig.level
    ELSE FALSE

\* The trigger test of process_packets (lines 143-153) for one sample.
IsTriggerPoint(sample, trig) ==
    IF trig.enabled /\ sample.channel = trig.channel
    THEN IF trig.rising_edge
         THEN sample.voltage > trig.level
         ELSE sample.voltage < trig.level
    ELSE sample.is_trigger

\* The retention test of process_packets (line 161).
Retained(trig, triggered) == ~trig.enabled \/ triggered

\* One pass state of process_packets: the byte queue, the samples vector,
\* the local `triggered` flag, the counters, and two history fields that the
\* code does not have: `seen` lists every decoded packet of the pass with
\* the offset of its first byte in the pass's input, `consumed` counts the
\* bytes popped so far.  A note of `seen` also keeps the packet as extracted.
PassStart(buf, received, counts) ==
    [buffer |-> buf, samples |-> <<>>, triggered |-> FALSE,
     samples_received |-> received, channel_counts |-> counts,
     seen |-> <<>>, consumed |-> 0]

PopFront(st) ==
    [st EXCEPT !.buffer = Tail(st.buffer), !.consumed = st.consumed + 1]

\* The packet handling with the trigger test made before the channel test.
HandlePacketGateLate(st, packet, active, trig) ==
    LET dec == decode_packet(packet)
        rest == [st EXCEPT !.buffer = SubSeq(st.buffer, Len(packet) + 1, Len(st.buffer)),
                           !.consumed = st.consumed + Len(packet)]
    IN  IF dec = <<>> THEN rest
        ELSE LET sample == dec[1]
                 isActive == active[sample.channel]
                 point == IsTriggerPoint(sample, trig)
                 triggered == st.triggered \/ point
                 keep == isActive /\ Retained(trig, triggered)
                 final == [sample EXCEPT !.is_trigger = point]
                 note == [sample |-> sample, active |-> isActive,
                          point |-> isActive /\ point, retained |-> keep,
                          start |-> st.consumed, size |-> Len(packet),
                          packet |-> packet]
             IN  [rest EXCEPT
                    !.triggered = triggered,
                    !.samples = IF keep THEN Append(st.samples, final) ELSE st.samples,
                    !.samples_received = IF keep THEN st.samples_received + 1
                                         ELSE st.samples_received,
                    !.channel_counts = IF keep
                        THEN [st.channel_counts EXCEPT ![sample.channel] = @ + 1]
                        ELSE st.channel_counts,
                    !.seen = Append(st.seen, note)]

\* Lines 138-173: what process_packets does with one extracted packet.
HandlePacket(st, packet, active, trig) ==
    LET dec == decode_packet(packet)
        rest == [st EXCEPT !.buffer = SubSeq(st.buffer, Len(packet) + 1, Len(st.buffer)),
                           !.consumed = st.consumed + Len(packet)]
    IN  IF dec = <<>> THEN rest
        ELSE LET sample == dec[1]
                 isActive == active[sample.channel]
                 point == IsTriggerPoint(sample, trig)
                 triggered == st.triggered \/ (isActive /\ point)
                 keep == isActive /\ Retained(trig, triggered)
                 final == [sample EXCEPT !.is_trigger = point]
                 note == [sample |-> sample, active |-> isActive,
                          point |-> isActive /\ point, retained |-> keep,
                          start |-> st.consumed, size |-> Len(packet),
                          packet |-> packet]
             IN  [rest EXCEPT
                    !.triggered = triggered,
                    !.samples = IF keep THEN Append(st.samples, final) ELSE st.samples,
                    !.samples_received = IF keep THEN st.samples_received + 1
                                         ELSE st.samples_received,
                    !.channel_counts = IF keep
                        THEN [st.channel_counts EXCEPT ![sample.channel] = @ + 1]
                        ELSE st.channel_counts,
                    !.seen = Append(st.seen, note)]

\* The loop of process_packets leaving the loop on a bad STOP byte instead
\* of skipping the START byte and scanning on.
RECURSIVE ProcessLoopBreaks(_, _, _)
ProcessLoopBreaks(st, active, trig) ==
    IF Len(st.buffer) < 5 THEN st
    ELSE IF st.buffer[1] # START_BYTE THEN ProcessLoopBreaks(PopFront(st), active, trig)
    ELSE LET has_trigger == Len(st.buffer) >= 6 /\ st.buffer[5] = TRIGGER_BYTE
             packet_size == IF has_trigger THEN 6 ELSE 5
             stop_pos == IF has_trigger THEN 5 ELSE 4
         IN  IF Len(st.buffer) < packet_size THEN st
             ELSE IF st.buffer[stop_pos + 1] # STOP_BYTE
                  THEN PopFront(st)
                  ELSE ProcessLoopBreaks(
                           HandlePacket(st, SubSeq(st.buffer, 1, packet_size), active, trig),
                           active, trig)

\* The loop of process_packets leaving the loop on a bad STOP byte with the
\* bytes still buffered.
RECURSIVE ProcessLoopWaits(_, _, _)
ProcessLoopWaits(st, active, trig) ==
    IF Len(st.buffer) < 5 THEN st
    ELSE IF st.buffer[1] # START_BYTE THEN ProcessLoopWaits(PopFront(st), active, trig)
    ELSE LET has_trigger == Len(st.buffer) >= 6 /\ st.buffer[5] = TRIGGER_BYTE
             packet_size == IF has_trigger THEN 6 ELSE 5
             stop_pos == IF has_trigger THEN 5 ELSE 4
         IN  IF Len(st.buffer) < packet_size THEN st
             ELSE IF st.buffer[stop_pos + 1] # STOP_BYTE
                  THEN st
                  ELSE ProcessLoopWaits(
                           HandlePacket(st, SubSeq(st.buffer, 1, packet_size), active, trig),
                           active, trig)

\* PacketProcessor::process_packets, lines 107-174: the while loop.  Each
\* unfolding is one iteration of the outer loop (or one pop of the inner
\* start-byte scan, whose exit test is the outer loop's own).
RECURSIVE ProcessLoop(_, _, _)
ProcessLoop(st, active, trig) ==
    IF Len(st.buffer) < 5 THEN st
    ELSE IF st.buffer[1] # START_BYTE THEN ProcessLoop(PopFront(st), active, trig)
    ELSE LET has_trigger == Len(st.buffer) >= 6 /\ st.buffer[5] = TRIGGER_BYTE
             packet_size == IF has_trigger THEN 6 ELSE 5
             stop_pos == IF has_trigger THEN 5 ELSE 4
         IN  IF Len(st.buffer) < packet_size THEN st
             ELSE IF st.buffer[stop_pos + 1] # STOP_BYTE
                  THEN ProcessLoop(PopFront(st), active, trig)
                  ELSE ProcessLoop(
                           HandlePacket(st, SubSeq(st.buffer, 1, packet_size), active, trig),
                           active, trig)

\* PacketProcessor::process_packets on a processor whose fields are given.
process_packets(buf, received, counts, active, trig) ==
    ProcessLoop(PassStart(buf, received, counts), active, trig)

\* PacketProcessor::add_bytes.
add_bytes(buf, bytes) == buf \o bytes

\* set_active_channels storing every request as it is.
NormalizeKeepsAll(channels) == channels

\* PacketProcessor::set_active_channels: the value stored for a request.
NormalizeChannels(channels) ==
    LET active_count == Cardinality({i \in Channels : channels[i]})
        Before(i) == Cardinality({j \in Channels : j < i /\ channels[j]})
    IN  IF active_count > 2
        THEN [i \in Channels |-> channels[i] /\ Before(i) < 2]
        ELSE channels

\* PacketProcessor::new.
NewActiveChannels == [i \in Channels |-> i \in {0, 1}]
NewTriggerConfig == [enabled |-> FALSE, channel |-> 0, level |-> 0, rising_edge |-> TRUE]
NewChannelCounts == [i \in Channels |-> 0]

\* ------------------------------------------------------------------------
\* State
\* ------------------------------------------------------------------------
VARIABLES
    \* ADC_PROCESSOR: Arc<Mutex<PacketProcessor>>
    buffer, samples_received, channel_counts, active_channels, trigger_config,
    proc_lock,
    \* BUFFER: Arc<Mutex<Vec<String>>>
    BUFFER, buf_lock,
    \* LOGGER: Arc<Logger>
    recording, file, file_lock,
    \* what the program acts on: log.csv, the open file handles, the serial port
    log_csv, handles, cmd_port,
    \* the worker thread of run(): state of its loop, position in one
    \* iteration of read_serial_into_buffer, the samples still to publish
    wstate, wpc, samples,
    \* the threads that run the IPC commands: position and locals of each
    pc, local,
    \* a direct caller of add_bytes/process_packets: the byte stream it was
    \* given, the bytes not yet added, the samples returned, the calls made
    items, wire, out, calls,
    \* history: the packets of the last pass, and per claim bookkeeping
    seen, hist

procVars == <<buffer, samples_received, channel_counts, active_channels,
              trigger_config, proc_lock>>
sinkVars == <<BUFFER, buf_lock>>
logVars == <<recording, file, file_lock, log_csv, handles>>
workerVars == <<wstate, wpc, samples>>
ipcVars == <<pc, local>>
callerVars == <<items, wire, out, calls>>
vars == <<procVars, sinkVars, logVars, cmd_port, workerVars, ipcVars,
          callerVars, seen, hist>>

\* The IPC threads.
Ipc == {"ui1", "ui2"}

\* History kept beside the program's state.
NewHist ==
    [passes |-> 0,         \* process_packets calls made by the worker
     gate |-> FALSE,       \* since the last configure_trigger, a sample of an active
                           \* trigger channel satisfied the comparison
     gate0 |-> FALSE,      \* gate, as it was when the last pass began
     crossed |-> FALSE,    \* the same, counting inactive trigger channels too
     crossed0 |-> FALSE,   \* crossed, as it was when the last pass began
     published |-> 0,      \* records pushed to BUFFER so far
     since |-> 0,          \* records pushed since BUFFER was last cleared
     evicted |-> {},       \* numbers of the records removed by overflow
     delivered |-> <<>>,   \* numbers of the records returned by drains, in order
     drains |-> 0,         \* get_serial_data calls begun
     connects |-> 0,       \* successful opens of the serial port
     fresh |-> FALSE,      \* no byte of the current connection was processed yet
     stale |-> 0,          \* buffered bytes that were read on an earlier connection
     stale0 |-> 0,         \* stale, as it was when the last pass began
     configs |-> 0,        \* configure_trigger and set_active_channels calls made
     toggles |-> 0,        \* toggle_log calls begun
     base |-> 0,           \* published, as it was when the last pass began
     counts0 |-> NewChannelCounts,  \* channel_counts when the last pass began
     received0 |-> 0,      \* samples_received when the last pass began
     request |-> NewActiveChannels, \* the last set_active_channels argument
     logger |-> "new",     \* "start": a Logger::start has begun since the last
                           \* stop returned; "stop": a stop returned and no
                           \* start has begun since
     log_result |-> "none",  \* what log_sample returned for the sample just
                             \* published: "ok", "err", or "none" before it returns
     rown |-> <<>>,        \* for each line of log.csv, the number of the
                           \* published record it was written for (0: no record)
     last_read |-> "none"] \* how the worker's last port.read ended: "data",
                           \* "timeout" (or 0 bytes) or "error"

\* State after run() has built the three singletons and spawned the worker.
InitProgram ==
    /\ buffer = <<>>
    /\ samples_received = 0
    /\ channel_counts = NewChannelCounts
    /\ active_channels = NewActiveChannels
    /\ trigger_config = NewTriggerConfig
    /\ proc_lock = "none"
    /\ BUFFER = <<>>
    /\ buf_lock = "none"
    /\ recording = FALSE
    /\ file = 0
    /\ file_lock = "none"
    /\ log_csv = <<>>
    /\ handles = <<>>
    /\ cmd_port = <<>>
    /\ wstate = "Opening"
    /\ wpc = "idle"
    /\ samples = <<>>
    /\ pc = [t \in Ipc |-> "idle"]
    /\ local = [t \in Ipc |-> <<>>]
    /\ seen = <<>>
    /\ hist = NewHist

\* ------------------------------------------------------------------------
\* Formatting, files and locks
\* ------------------------------------------------------------------------

\* Bounds of the runs.
MaxReads == 3
MaxConnects == 2
MaxDrains == 2
MaxConfigs == 2
MaxToggles == 3
\* Capacity of BUFFER: read_serial_into_buffer's buffer_size (run passes 1024).
buffer_size == 3

\* `{:.4}` of a voltage: the number of 1/10000 V nearest to v/32768 V, a tie
\* going to the even neighbour.
Round4(v) ==
    LET n == IF v < 0 THEN -v * 625 ELSE v * 625
        q == n \div 2048
        r == n % 2048
        m == IF 2 * r > 2048 \/ (2 * r = 2048 /\ q % 2 = 1) THEN q + 1 ELSE q
    IN  IF v < 0 THEN -m ELSE m

\* format!("Ch{}: {:.4} V", sample.channel + 1, sample.voltage)
FormatLine(sample) == <<sample.channel + 1, Round4(sample.voltage)>>

\* format!("{},{},{:.4},{}\n", timestamp, channel, voltage, raw_value)
CsvLine(sample) ==
    [kind |-> "row", channel |-> sample.channel,
     voltage |-> Round4(sample.voltage), raw_value |-> sample.raw_value]
CsvHeader == [kind |-> "header", channel |-> 0, voltage |-> 0, raw_value |-> 0]
Hole == [kind |-> "hole", channel |-> 0, voltage |-> 0, raw_value |-> 0]

\* log.csv is a sequence of lines, each with the handle that wrote it; a
\* handle is its offset in lines.  A write at an offset past the end of the
\* file leaves a hole before it, a write inside the file overwrites.
Holes(n) == [i \in 1..n |-> [line |-> Hole, by |-> 0]]
WriteAt(content, pos, line, h) ==
    IF pos >= Len(content)
    THEN content \o Holes(pos - Len(content)) \o <<[line |-> line, by |-> h]>>
    ELSE [content EXCEPT ![pos + 1] = [line |-> line, by |-> h]]

\* The push with `>` for `>=`: the oldest line is removed one push too late.
PublishLate(buf, entry) ==
    IF Len(buf) > buffer_size THEN Append(Tail(buf), entry) ELSE Append(buf, entry)

\* The push putting the new line in front of the lines already there.
PublishFront(buf, entry) ==
    IF Len(buf) >= buffer_size THEN <<entry>> \o Tail(buf) ELSE <<entry>> \o buf

\* The push of one line into BUFFER (lines 438-441).
Publish(buf, entry) ==
    IF Len(buf) >= buffer_size THEN Append(Tail(buf), entry) ELSE Append(buf, entry)

\* A lock that never makes a thread wait.
NeverWaits(lock) == TRUE

\* Mutex::lock returns when no thread holds the lock.
CanLock(lock) == lock = "none"

\* The comparison of TriggerConfig against a sample's voltage.
Crosses(sample, trig) ==
    /\ trig.enabled
    /\ sample.channel = trig.channel
    /\ IF trig.rising_edge THEN sample.voltage > trig.level
                           ELSE sample.voltage < trig.level

\* `(config.level * 32768.0 / 10.0) as i16`: truncated toward zero, saturating.
LevelAsI16(level) ==
    LET t == IF level >= 0 THEN level \div 10 ELSE -((-level) \div 10)
    IN  IF t > 32767 THEN 32767 ELSE IF t < -32768 THEN -32768 ELSE t

\* The command configure_trigger builds (lines 89-94).
TriggerCommand(config) ==
    LET lv == LevelAsI16(config.level)
    IN  <<START_BYTE, 254,
          (IF config.enabled THEN 16 ELSE 0) + (config.channel % 4),
          (lv \div 256) % 256,
          lv % 256,
          IF config.rising_edge THEN 1 ELSE 0>>

\* ------------------------------------------------------------------------
\* The worker thread: run()'s loop around read_serial_into_buffer
\* ------------------------------------------------------------------------

\* Lines 391-408: the port is found and opened.
OpenOk ==
    /\ wstate = "Opening"
    /\ hist.connects < MaxConnects
    /\ wstate' = "Streaming"
    /\ hist' = [hist EXCEPT !.connects = @ + 1, !.fresh = TRUE, !.stale = Len(buffer)]
    /\ UNCHANGED <<procVars, sinkVars, logVars, cmd_port, wpc, samples, ipcVars,
                   callerVars, seen>>

\* Lines 391-406 return Err: no port list, no COM port, or open failed;
\* run() then sleeps (lines 317-318).
OpenFail ==
    /\ wstate = "Opening"
    /\ wstate' = "Retrying"
    /\ UNCHANGED <<procVars, sinkVars, logVars, cmd_port, wpc, samples, ipcVars,
                   callerVars, seen, hist>>

\* Lines 310-320: after the sleep the loop calls read_serial_into_buffer again.
Retry ==
    /\ wstate = "Retrying"
    /\ wstate' = "Opening"
    /\ UNCHANGED <<procVars, sinkVars, logVars, cmd_port, wpc, samples, ipcVars,
                   callerVars, seen, hist>>

\* Lines 413-415 and 450-452: the read times out or returns 0 bytes.
ReadNothing ==
    /\ wstate = "Streaming" /\ wpc = "idle"
    /\ hist' = [hist EXCEPT !.last_read = "timeout"]
    /\ UNCHANGED <<procVars, sinkVars, logVars, cmd_port, workerVars, ipcVars,
                   callerVars, seen>>

\* A read error after which the worker thread ends.
ReadErrorStops ==
    /\ wstate = "Streaming" /\ wpc = "idle"
    /\ wstate' = "Stopped"
    /\ hist' = [hist EXCEPT !.last_read = "error"]
    /\ UNCHANGED <<procVars, sinkVars, logVars, cmd_port, wpc, samples, ipcVars,
                   callerVars, seen>>

\* Lines 453-456: any other read error ends read_serial_into_buffer.
ReadError ==
    /\ wstate = "Streaming" /\ wpc = "idle"
    /\ wstate' = "Retrying"
    /\ hist' = [hist EXCEPT !.last_read = "error"]
    /\ UNCHANGED <<procVars, sinkVars, logVars, cmd_port, wpc, samples, ipcVars,
                   callerVars, seen>>

\* Lines 413-422: a read returns the bytes `chunk`; the worker locks the
\* processor, adds the bytes and runs process_packets.
WorkerProcess(chunk) ==
    /\ wstate = "Streaming" /\ wpc = "idle"
    /\ hist.passes < MaxReads
    /\ CanLock(proc_lock)
    /\ LET st == process_packets(add_bytes(buffer, chunk), samples_received,
                                 channel_counts, active_channels, trigger_config)
           hit(n) == Crosses(st.seen[n].sample, trigger_config)
       IN  /\ buffer' = st.buffer
           /\ samples_received' = st.samples_received
           /\ channel_counts' = st.channel_counts
           /\ samples' = st.samples
           /\ seen' = st.seen
           /\ hist' = [hist EXCEPT
                 !.passes = @ + 1,
                 !.gate0 = hist.gate,
                 !.gate = @ \/ \E n \in 1..Len(st.seen) : st.seen[n].active /\ hit(n),
                 !.crossed0 = hist.crossed,
                 !.crossed = @ \/ \E n \in 1..Len(st.seen) : hit(n),
                 !.fresh = FALSE,
                 !.stale0 = hist.stale,
                 !.stale = IF st.consumed >= @ THEN 0 ELSE @ - st.consumed,
                 !.base = hist.published,
                 !.last_read = "data",
                 !.counts0 = channel_counts,
                 !.received0 = samples_received]
    /\ proc_lock' = "worker"
    /\ wpc' = "lock_buffer"
    /\ UNCHANGED <<active_channels, trigger_config, sinkVars, logVars, cmd_port,
                   wstate, ipcVars, callerVars>>

\* Lines 426-427: buffer.lock().
WorkerLockBuffer ==
    /\ wpc = "lock_buffer"
    /\ CanLock(buf_lock)
    /\ buf_lock' = "worker"
    /\ wpc' = "publish"
    /\ UNCHANGED <<procVars, BUFFER, logVars, cmd_port, wstate, samples, ipcVars,
                   callerVars, seen, hist>>

\* Lines 429-441: the next sample is formatted and pushed, the oldest line
\* removed first when BUFFER is full.
WorkerPublish ==
    /\ wpc = "publish"
    /\ samples # <<>>
    /\ LET entry == [text |-> FormatLine(Head(samples)), n |-> hist.published + 1]
       IN  /\ BUFFER' = Publish(BUFFER, entry)
           /\ hist' = [hist EXCEPT
                 !.published = @ + 1,
                 !.since = @ + 1,
                 !.evicted = IF Len(BUFFER) >= buffer_size
                             THEN @ \cup {BUFFER[1].n} ELSE @,
                 !.log_result = "none"]
    /\ wpc' = "log"
    /\ UNCHANGED <<procVars, buf_lock, logVars, cmd_port, wstate, samples, ipcVars,
                   callerVars, seen>>

\* Logger::log_sample, lines 267-269: the recording flag is read.
WorkerLogCheck ==
    /\ wpc = "log"
    /\ IF recording
       THEN wpc' = "log_write" /\ samples' = samples /\ hist' = hist
       ELSE /\ wpc' = "publish" /\ samples' = Tail(samples)
            /\ hist' = [hist EXCEPT !.log_result = "ok"]
    /\ UNCHANGED <<procVars, sinkVars, logVars, cmd_port, wstate, ipcVars,
                   callerVars, seen>>

\* Logger::log_sample, lines 271-288, with the file lock held: the line is
\* written through the stored handle, if there is one.
WorkerLogWrite ==
    /\ wpc = "log_write"
    /\ CanLock(file_lock)
    /\ IF file # 0
       THEN /\ log_csv' = WriteAt(log_csv, handles[file], CsvLine(Head(samples)), file)
            /\ handles' = [handles EXCEPT ![file] = @ + 1]
            /\ hist' = [hist EXCEPT
                  !.log_result = "ok",
                  !.rown = WriteAt(@, handles[file], hist.published, file)]
       ELSE /\ UNCHANGED <<log_csv, handles>>
            /\ hist' = [hist EXCEPT !.log_result = "ok"]
    /\ samples' = Tail(samples)
    /\ wpc' = "publish"
    /\ UNCHANGED <<procVars, sinkVars, recording, file, file_lock, cmd_port, wstate,
                   ipcVars, callerVars, seen>>

\* A failed append ending read_serial_into_buffer with an error.
WorkerLogFailStops ==
    /\ wpc = "log_write"
    /\ CanLock(file_lock)
    /\ file # 0
    /\ samples' = <<>>
    /\ wpc' = "idle"
    /\ wstate' = "Retrying"
    /\ buf_lock' = "none"
    /\ proc_lock' = "none"
    /\ hist' = [hist EXCEPT !.log_result = "err"]
    /\ UNCHANGED <<buffer, samples_received, channel_counts, active_channels,
                   trigger_config, BUFFER, logVars, cmd_port, ipcVars,
                   callerVars, seen>>

\* Lines 280-285: write_all or flush fails; the worker prints the error
\* (lines 444-446) and goes on with the next sample.
WorkerLogFail ==
    /\ wpc = "log_write"
    /\ CanLock(file_lock)
    /\ file # 0
    /\ samples' = Tail(samples)
    /\ wpc' = "publish"
    /\ hist' = [hist EXCEPT !.log_result = "err"]
    /\ UNCHANGED <<procVars, sinkVars, logVars, cmd_port, wstate, ipcVars,
                   callerVars, seen>>

\* Lines 447-449: the for loop is over; both guards are dropped.
WorkerRelease ==
    /\ wpc = "publish"
    /\ samples = <<>>
    /\ buf_lock' = "none"
    /\ proc_lock' = "none"
    /\ wpc' = "idle"
    /\ hist' = [hist EXCEPT !.log_result = "none"]
    /\ UNCHANGED <<buffer, samples_received, channel_counts, active_channels,
                   trigger_config, BUFFER, logVars, cmd_port, wstate, samples,
                   ipcVars, callerVars, seen>>

\* ------------------------------------------------------------------------
\* The IPC commands
\* ------------------------------------------------------------------------

\* get_serial_data, line 352: buffer.lock().
DrainLock(t) ==
    /\ pc[t] = "idle"
    /\ hist.drains < MaxDrains
    /\ CanLock(buf_lock)
    /\ buf_lock' = t
    /\ pc' = [pc EXCEPT ![t] = "drain_clone"]
    /\ hist' = [hist EXCEPT !.drains = @ + 1]
    /\ UNCHANGED <<procVars, BUFFER, logVars, cmd_port, workerVars, local,
                   callerVars, seen>>

\* get_serial_data, line 353: buf.clone().
DrainClone(t) ==
    /\ pc[t] = "drain_clone"
    /\ local' = [local EXCEPT ![t] = BUFFER]
    /\ pc' = [pc EXCEPT ![t] = "drain_clear"]
    /\ UNCHANGED <<procVars, sinkVars, logVars, cmd_port, workerVars, callerVars,
                   seen, hist>>

\* get_serial_data, line 355: buf.clear().
DrainClear(t) ==
    /\ pc[t] = "drain_clear"
    /\ BUFFER' = <<>>
    /\ pc' = [pc EXCEPT ![t] = "drain_return"]
    /\ hist' = [hist EXCEPT !.since = 0]
    /\ UNCHANGED <<procVars, buf_lock, logVars, cmd_port, workerVars, local,
                   callerVars, seen>>

\* get_serial_data, lines 356-360: the guard is dropped and the copy returned.
DrainReturn(t) ==
    /\ pc[t] = "drain_return"
    /\ buf_lock' = "none"
    /\ pc' = [pc EXCEPT ![t] = "idle"]
    /\ hist' = [hist EXCEPT
          !.delivered = @ \o [i \in 1..Len(local[t]) |-> local[t][i].n]]
    /\ local' = [local EXCEPT ![t] = <<>>]
    /\ UNCHANGED <<procVars, BUFFER, logVars, cmd_port, workerVars, callerVars, seen>>

\* set_active_channels, lines 364-372, with PacketProcessor::set_active_channels.
SetActiveChannels(t, channels) ==
    /\ pc[t] = "idle"
    /\ hist.configs < MaxConfigs
    /\ CanLock(proc_lock)
    /\ active_channels' = NormalizeChannels(channels)
    /\ hist' = [hist EXCEPT !.configs = @ + 1, !.request = channels]
    /\ UNCHANGED <<buffer, samples_received, channel_counts, trigger_config,
                   proc_lock, sinkVars, logVars, cmd_port, workerVars, ipcVars,
                   callerVars, seen>>

\* configure_trigger, lines 375-380 and 84-94: the processor is locked, the
\* configuration stored and the firmware command built.
ConfigureTrigger(t, config) ==
    /\ pc[t] = "idle"
    /\ hist.configs < MaxConfigs
    /\ CanLock(proc_lock)
    /\ proc_lock' = t
    /\ trigger_config' = config
    /\ local' = [local EXCEPT ![t] = TriggerCommand(config)]
    /\ pc' = [pc EXCEPT ![t] = "send_command"]
    /\ hist' = [hist EXCEPT !.configs = @ + 1, !.gate = FALSE, !.crossed = FALSE]
    /\ UNCHANGED <<buffer, samples_received, channel_counts, active_channels,
                   sinkVars, logVars, cmd_port, workerVars, callerVars, seen>>

\* PacketProcessor::configure_trigger, lines 97-100: COM3 is opened and the
\* command written, or the open fails and nothing is sent; then the
\* processor guard is dropped.
SendCommand(t, opened) ==
    /\ pc[t] = "send_command"
    /\ cmd_port' = IF opened THEN local[t] ELSE cmd_port
    /\ proc_lock' = "none"
    /\ pc' = [pc EXCEPT ![t] = "idle"]
    /\ local' = [local EXCEPT ![t] = <<>>]
    /\ UNCHANGED <<buffer, samples_received, channel_counts, active_channels,
                   trigger_config, sinkVars, logVars, workerVars, callerVars,
                   seen, hist>>

\* toggle_log(true) -> Logger::start, line 240: File::create("log.csv")
\* truncates the file and gives a new handle at offset 0.
StartCreate(t) ==
    /\ pc[t] = "idle"
    /\ hist.toggles < MaxToggles
    /\ log_csv' = <<>>
    /\ handles' = Append(handles, 0)
    /\ local' = [local EXCEPT ![t] = Len(handles) + 1]
    /\ pc' = [pc EXCEPT ![t] = "start_header"]
    /\ hist' = [hist EXCEPT !.toggles = @ + 1, !.logger = "start", !.rown = <<>>]
    /\ UNCHANGED <<procVars, sinkVars, recording, file, file_lock, cmd_port,
                   workerVars, callerVars, seen>>

\* Logger::start, lines 240-241: File::create fails and start returns Err.
StartCreateFail(t) ==
    /\ pc[t] = "idle"
    /\ hist.toggles < MaxToggles
    /\ hist' = [hist EXCEPT !.toggles = @ + 1]
    /\ UNCHANGED <<procVars, sinkVars, logVars, cmd_port, workerVars, ipcVars,
                   callerVars, seen>>

\* Logger::start, lines 243-244: the header is written through the new handle.
StartHeader(t) ==
    /\ pc[t] = "start_header"
    /\ log_csv' = WriteAt(log_csv, handles[local[t]], CsvHeader, local[t])
    /\ handles' = [handles EXCEPT ![local[t]] = @ + 1]
    /\ pc' = [pc EXCEPT ![t] = "start_lock"]
    /\ hist' = [hist EXCEPT !.rown = WriteAt(@, handles[local[t]], 0, local[t])]
    /\ UNCHANGED <<procVars, sinkVars, recording, file, file_lock, cmd_port,
                   workerVars, local, callerVars, seen>>

\* Logger::start, line 244: the header write fails; start returns Err and
\* the new handle is dropped.
StartHeaderFail(t) ==
    /\ pc[t] = "start_header"
    /\ pc' = [pc EXCEPT ![t] = "idle"]
    /\ local' = [local EXCEPT ![t] = <<>>]
    /\ UNCHANGED <<procVars, sinkVars, logVars, cmd_port, workerVars, callerVars,
                   seen, hist>>

\* Logger::start, lines 246-248: the file lock is taken and the new handle
\* stored (the handle stored before is dropped).
StartStoreFile(t) ==
    /\ pc[t] = "start_lock"
    /\ CanLock(file_lock)
    /\ file_lock' = t
    /\ file' = local[t]
    /\ pc' = [pc EXCEPT ![t] = "start_flag"]
    /\ UNCHANGED <<procVars, sinkVars, recording, log_csv, handles, cmd_port,
                   workerVars, local, callerVars, seen, hist>>

\* Logger::start, lines 250-252: recording is set, then the guard is dropped.
StartSetFlag(t) ==
    /\ pc[t] = "start_flag"
    /\ recording' = TRUE
    /\ file_lock' = "none"
    /\ pc' = [pc EXCEPT ![t] = "idle"]
    /\ local' = [local EXCEPT ![t] = <<>>]
    /\ UNCHANGED <<procVars, sinkVars, file, log_csv, handles, cmd_port,
                   workerVars, callerVars, seen, hist>>

\* toggle_log(false) -> Logger::stop, line 255: recording is cleared.
StopClearFlag(t) ==
    /\ pc[t] = "idle"
    /\ hist.toggles < MaxToggles
    /\ recording' = FALSE
    /\ pc' = [pc EXCEPT ![t] = "stop_lock"]
    /\ hist' = [hist EXCEPT !.toggles = @ + 1]
    /\ UNCHANGED <<procVars, sinkVars, file, file_lock, log_csv, handles, cmd_port,
                   workerVars, local, callerVars, seen>>

\* Logger::stop keeping the stored handle.
StopKeepsFile(t) ==
    /\ pc[t] = "stop_lock"
    /\ CanLock(file_lock)
    /\ pc' = [pc EXCEPT ![t] = "idle"]
    /\ hist' = [hist EXCEPT !.logger = "stop"]
    /\ UNCHANGED <<procVars, sinkVars, logVars, cmd_port, workerVars, local,
                   callerVars, seen>>

\* Logger::stop, lines 256-259: the file lock is taken, the handle dropped
\* and the guard dropped.
StopDropFile(t) ==
    /\ pc[t] = "stop_lock"
    /\ CanLock(file_lock)
    /\ file' = 0
    /\ pc' = [pc EXCEPT ![t] = "idle"]
    /\ hist' = [hist EXCEPT !.logger = "stop"]
    /\ UNCHANGED <<procVars, sinkVars, recording, file_lock, log_csv, handles,
                   cmd_port, workerVars, local, callerVars, seen>>

\* ------------------------------------------------------------------------
\* Byte streams for direct calls of add_bytes / process_packets
\* ------------------------------------------------------------------------

\* Bounds of the streams.
MaxFrames == 2
MaxItems == 3
MaxLead == 1

\* Channel bytes (0x00 -> channel 0, 0x55 -> channel 1, 0xAA -> channel 2),
\* value byte pairs and stray bytes; the three markers occur as payload.
ChanBytes == {0, 85, 170}
ValuePairs == {<<1, 2>>, <<85, 170>>, <<204, 85>>, <<170, 204>>}
StrayBytes == {0, 85, 170, 204, 7}

\* A stream item: its bytes on the wire and, for a frame, what it encodes
\* (read off the frame layout, lines 107 and 184-187, not off the decoder).
ShortFrame(c, v) ==
    [kind |-> "frame", bytes |-> <<START_BYTE, c, v[1], v[2], STOP_BYTE>>,
     channel |-> c % 4, raw_value |-> v[1] * 256 + v[2], marked |-> FALSE]
LongFrame(c, v) ==
    [kind |-> "frame", bytes |-> <<START_BYTE, c, v[1], v[2], TRIGGER_BYTE, STOP_BYTE>>,
     channel |-> c % 4, raw_value |-> v[1] * 256 + v[2], marked |-> TRUE]
Garbage(b) ==
    [kind |-> "garbage", bytes |-> <<b>>, channel |-> 0, raw_value |-> 0, marked |-> FALSE]
\* A frame with byte x inserted immediately before its STOP marker.
Corrupt(f, x) ==
    [f EXCEPT !.kind = "corrupt",
              !.bytes = SubSeq(f.bytes, 1, Len(f.bytes) - 1) \o <<x, STOP_BYTE>>]

Frames == {ShortFrame(c, v) : c \in ChanBytes, v \in ValuePairs}
              \cup {LongFrame(c, v) : c \in ChanBytes, v \in ValuePairs}
Garbages == {Garbage(b) : b \in StrayBytes}
Corrupts == {Corrupt(f, x) : f \in Frames, x \in StrayBytes}

SeqsUpTo(S, n) == UNION {[1..k -> S] : k \in 0..n}

RECURSIVE Flatten(_)
Flatten(its) == IF its = <<>> THEN <<>> ELSE Head(its).bytes \o Flatten(Tail(its))

\* Offset in the stream of the first byte of item i.
StartOf(its, i) == Len(Flatten(SubSeq(its, 1, i - 1)))

\* A call add_bytes(first k bytes of wire); process_packets() by a caller
\* that owns the processor.
Feed(k) ==
    LET st == process_packets(add_bytes(buffer, SubSeq(wire, 1, k)),
                              samples_received, channel_counts,
                              active_channels, trigger_config)
    IN  /\ buffer' = st.buffer
        /\ samples_received' = st.samples_received
        /\ channel_counts' = st.channel_counts
        /\ seen' = st.seen
        /\ out' = out \o st.samples
        /\ wire' = SubSeq(wire, k + 1, Len(wire))
        /\ calls' = calls + 1
        /\ UNCHANGED <<active_channels, trigger_config, proc_lock, sinkVars,
                       logVars, cmd_port, workerVars, ipcVars, items, hist>>

\* The stream in two calls, split at any point, or in one call.
FeedPrefix == calls = 0 /\ \E k \in 0..Len(wire) : Feed(k)
FeedRest == calls = 1 /\ Feed(Len(wire))
FeedAll == calls = 0 /\ Feed(Len(wire))

InitStream(streams) ==
    /\ InitProgram
    /\ items \in streams
    /\ wire = Flatten(items)
    /\ out = <<>>
    /\ calls = 0

\* The program with no direct caller of the processor.
InitSystem ==
    /\ InitProgram
    /\ items = <<>>
    /\ wire = <<>>
    /\ out = <<>>
    /\ calls = 0

\* Well-formed frames only, fed in two calls.
InitSplit == InitStream(SeqsUpTo(Frames, MaxFrames) \ {<<>>})
NextSplit == FeedPrefix \/ FeedRest
SpecSplit == InitSplit /\ [][NextSplit]_vars

\* The samples one add_bytes + process_packets of the whole stream returns
\* on a processor in the initial state of this one.
WholeSamples(its) ==
    process_packets(add_bytes(<<>>, Flatten(its)), 0, NewChannelCounts,
                    active_channels, trigger_config).samples

\* The number of bytes added so far.
Fed == Len(Flatten(items)) - Len(wire)

\* C1: an incomplete trailing frame is never consumed.  For every stream of
\* well-formed frames and every split point, add_bytes + process_packets on
\* the prefix and then on the suffix returns the samples that one call on
\* the whole stream returns; and when the bytes added end exactly 5 bytes
\* into a long frame, process_packets leaves those 5 bytes in the buffer.
C1_SplitSameAsWhole ==
    /\ calls = 2 => out = WholeSamples(items)
    /\ \A i \in 1..Len(items) :
           (calls = 1 /\ Len(items[i].bytes) = 6 /\ Fed = StartOf(items, i) + 5)
               => buffer = SubSeq(items[i].bytes, 1, 5)

\* Well-formed frames of the channels active by default, interleaved with
\* stray bytes, fed in one call.
ActiveFrames == {f \in Frames : f.bytes[2] \in {0, 85}}
InitGarbage == InitStream(SeqsUpTo(ActiveFrames \cup Garbages, MaxItems))
NextGarbage == FeedAll
SpecGarbage == InitGarbage /\ [][NextGarbage]_vars

\* Well-formed frames, one of them with a byte inserted before its STOP
\* marker and a well-formed frame right after it, fed in one call.
LeadFrames == {ShortFrame(0, <<1, 2>>), LongFrame(85, <<170, 204>>)}
CorruptStreams ==
    {lead \o <<c, f>> : lead \in SeqsUpTo(LeadFrames, MaxLead),
                        c \in Corrupts, f \in Frames}
InitCorrupt == InitStream(CorruptStreams)
NextCorrupt == FeedAll
SpecCorrupt == InitCorrupt /\ [][NextCorrupt]_vars

\* What the frames of a stream encode, in stream order.
RECURSIVE Encoded(_)
Encoded(its) ==
    IF its = <<>> THEN <<>>
    ELSE IF Head(its).kind = "frame"
         THEN <<[channel |-> Head(its).channel, raw_value |-> Head(its).raw_value]>>
                  \o Encoded(Tail(its))
         ELSE Encoded(Tail(its))

\* Channel and raw value of the samples returned.
Returned == [i \in 1..Len(out) |-> [channel |-> out[i].channel,
                                    raw_value |-> out[i].raw_value]]

FramesActive(its) ==
    \A i \in 1..Len(its) : its[i].kind = "frame" => active_channels[its[i].channel]

NoStartInGarbage(its) ==
    \A i \in 1..Len(its) : its[i].kind = "garbage" => its[i].bytes # <<START_BYTE>>

\* C2 as stated: with the trigger disabled and the frames' channels active,
\* one add_bytes + process_packets of N well-formed frames interleaved with
\* arbitrary stray bytes returns exactly the N samples the frames encode, in
\* frame order.
C2_AnyGarbage ==
    (calls = 1 /\ ~trigger_config.enabled /\ FramesActive(items))
        => Returned = Encoded(items)

\* C2 as amended: the same, for stray bytes that are not the START marker.
C2_GarbageWithoutStart ==
    (calls = 1 /\ ~trigger_config.enabled /\ FramesActive(items)
               /\ NoStartInGarbage(items))
        => Returned = Encoded(items)

\* C2 witness: two frames with stray bytes before and between them were
\* decoded.
C2_Witness ==
    /\ calls = 1
    /\ Len(items) = 3
    /\ items[1].kind = "garbage" /\ items[1].bytes # <<START_BYTE>>
    /\ items[2].kind = "frame" /\ items[3].kind = "frame"
    /\ FramesActive(items)
    /\ Len(out) = 2

\* The index of the frame with the inserted byte.
CorruptAt(its) == CHOOSE i \in 1..Len(its) : its[i].kind = "corrupt"

\* A decoded packet of the last pass that took a byte of item i.
Touches(note, its, i) ==
    /\ note.start < StartOf(its, i) + Len(its[i].bytes)
    /\ note.start + note.size > StartOf(its, i)

\* Item i was decoded as one packet, with the channel and raw value it encodes.
DecodedAsSent(its, i) ==
    \E n \in 1..Len(seen) :
        /\ seen[n].start = StartOf(its, i)
        /\ seen[n].size = Len(its[i].bytes)
        /\ seen[n].sample.channel = its[i].channel
        /\ seen[n].sample.raw_value = its[i].raw_value
        /\ seen[n].active = active_channels[its[i].channel]
        /\ seen[n].active => \E k \in 1..Len(out) : out[k] = seen[n].sample

Dropped(its, i) == \A n \in 1..Len(seen) : ~Touches(seen[n], its, i)

\* C3 as stated: with one arbitrary byte inserted immediately before the
\* STOP marker of one frame, no sample is derived from that frame's bytes
\* and the next well-formed frame is decoded with its channel and raw value.
C3_AnyInsertedByte ==
    calls = 1 => LET i == CorruptAt(items)
                 IN  Dropped(items, i) /\ DecodedAsSent(items, i + 1)

\* The byte that was inserted into the corrupted frame.
Inserted(its) ==
    LET b == its[CorruptAt(its)].bytes IN b[Len(b) - 1]

\* C3 as amended: the same, when the inserted byte is none of the START,
\* STOP and TRIGGER markers and the channel and value bytes of the frame it
\* is inserted into are not the START marker.
C3_InsertedNonMarker ==
    (/\ calls = 1
     /\ Inserted(items) \notin {START_BYTE, STOP_BYTE, TRIGGER_BYTE}
     /\ \A k \in 2..4 : items[CorruptAt(items)].bytes[k] # START_BYTE)
        => LET i == CorruptAt(items)
           IN  Dropped(items, i) /\ DecodedAsSent(items, i + 1)

\* C3 witness: a frame with a non-marker byte inserted was dropped after a
\* frame before it was decoded, and the frame after it was returned.
C3_Witness ==
    /\ calls = 1
    /\ Len(items) = 3
    /\ Inserted(items) = 7
    /\ \A k \in 2..4 : items[2].bytes[k] # START_BYTE
    /\ active_channels[items[3].channel]
    /\ Dropped(items, 2)
    /\ Len(out) = 2
    /\ out[2].raw_value = items[3].raw_value

\* ------------------------------------------------------------------------
\* The program: worker, display polling, configuration and recording
\* ------------------------------------------------------------------------

\* Value bytes of a positive (0x0100) and a negative (0xFF00) reading.
Pos == <<1, 0>>
Neg == <<255, 0>>

\* What one read of the serial port may return.
FrameChunks ==
    {ShortFrame(0, Pos).bytes, ShortFrame(0, Neg).bytes, ShortFrame(1, Pos).bytes,
     LongFrame(1, Neg).bytes, ShortFrame(2, Pos).bytes}
PartChunks == {<<START_BYTE, 0, 1>>, <<0, STOP_BYTE>>}
BurstChunks == {ShortFrame(0, Pos).bytes \o ShortFrame(1, Neg).bytes}

\* What the frontend may send.
TriggerConfigs ==
    [enabled : BOOLEAN, channel : {0, 1}, level : {0}, rising_edge : BOOLEAN]
ChannelRequests ==
    {[i \in Channels |-> i \in S] : S \in {{0, 1}, {1, 2}, {0, 2}, {0, 1, 2, 3}}}

Worker(chunks) ==
    \/ OpenOk
    \/ OpenFail
    \/ Retry
    \/ ReadNothing
    \/ ReadError
    \/ \E chunk \in chunks : WorkerProcess(chunk)
    \/ WorkerLockBuffer
    \/ WorkerPublish
    \/ WorkerLogCheck
    \/ WorkerLogWrite
    \/ WorkerLogFail
    \/ WorkerRelease

Drain(t) == DrainLock(t) \/ DrainClone(t) \/ DrainClear(t) \/ DrainReturn(t)

Configure(t) ==
    \/ \E channels \in ChannelRequests : SetActiveChannels(t, channels)
    \/ \E config \in TriggerConfigs : ConfigureTrigger(t, config)
    \/ \E opened \in BOOLEAN : SendCommand(t, opened)

ToggleLog(t) ==
    \/ StartCreate(t)
    \/ StartCreateFail(t)
    \/ StartHeader(t)
    \/ StartHeaderFail(t)
    \/ StartStoreFile(t)
    \/ StartSetFlag(t)
    \/ StopClearFlag(t)
    \/ StopDropFile(t)

Init == InitSystem
Next ==
    \/ Worker(FrameChunks \cup PartChunks)
    \/ \E t \in Ipc : Drain(t) \/ Configure(t) \/ ToggleLog(t)
Spec == Init /\ [][Next]_vars

\* Acquisition under a frontend that configures the trigger and the channels.
NextTrigger ==
    \/ OpenOk
    \/ \E chunk \in FrameChunks : WorkerProcess(chunk)
    \/ WorkerLockBuffer
    \/ WorkerPublish
    \/ WorkerLogCheck
    \/ WorkerRelease
    \/ Configure("ui1")
SpecTrigger == Init /\ [][NextTrigger]_vars

\* C4: the trigger gate is latched.  With the trigger enabled and the
\* trigger channel active, once a sample of the trigger channel satisfies
\* the comparison against level, that sample and every later sample of an
\* active channel, in the same or any later process_packets call, is
\* retained, until the trigger is configured again.  (Checked on the state
\* right after a pass of the worker, which still holds the processor lock.)
C4_GateStaysOpen ==
    (/\ wpc = "lock_buffer"
     /\ trigger_config.enabled
     /\ active_channels[trigger_config.channel])
        => \A i \in 1..Len(seen) :
               (/\ seen[i].active
                /\ \/ hist.gate0
                   \/ \E j \in 1..i : seen[j].active
                                      /\ Crosses(seen[j].sample, trigger_config))
                   => seen[i].retained

\* C5: with the trigger enabled, only a sample of TriggerConfig.channel
\* whose voltage satisfies the comparison opens the gate: before the first
\* one since the trigger was configured, process_packets returns no sample
\* of any channel (and so none is published or logged), whatever TRIGGER
\* marker the frames of other channels carry.
C5_OnlyCrossingOpensGate ==
    (wpc = "lock_buffer" /\ trigger_config.enabled)
        => \A i \in 1..Len(seen) :
               seen[i].retained
                   => \/ hist.crossed0
                      \/ \E j \in 1..i : Crosses(seen[j].sample, trigger_config)

\* The worker alone, on a port that fails and is opened again.
NextReconnect ==
    \/ OpenOk
    \/ OpenFail
    \/ Retry
    \/ ReadNothing
    \/ ReadError
    \/ \E chunk \in FrameChunks \cup PartChunks : WorkerProcess(chunk)
    \/ WorkerLockBuffer
    \/ WorkerPublish
    \/ WorkerLogCheck
    \/ WorkerRelease
SpecReconnect == Init /\ [][NextReconnect]_vars

\* C6: after a reconnect decoding starts from a fresh state: no byte read on
\* an earlier connection is in the frame buffer when bytes of the current
\* connection are processed, and no packet is decoded from bytes of which
\* some were read on an earlier connection and some on the current one.
C6_FreshAfterReconnect ==
    /\ wpc = "lock_buffer" => hist.stale0 = 0
    /\ \A n \in 1..Len(seen) :
           ~(seen[n].start < hist.stale0 /\ hist.stale0 < seen[n].start + seen[n].size)

\* Acquisition under a frontend that polls the display buffer.
NextSink ==
    \/ OpenOk
    \/ \E chunk \in BurstChunks \cup FrameChunks : WorkerProcess(chunk)
    \/ WorkerLockBuffer
    \/ WorkerPublish
    \/ WorkerLogCheck
    \/ WorkerRelease
    \/ \E t \in Ipc : Drain(t)
SpecSink == Init /\ [][NextSink]_vars

Numbers(entries) == [i \in 1..Len(entries) |-> entries[i].n]
Range(f) == {f[i] : i \in DOMAIN f}
Increasing(f) == \A i, j \in DOMAIN f : i < j => f[i] < f[j]
Min(a, b) == IF a < b THEN a ELSE b

\* C7: BUFFER is a bounded drop-oldest FIFO.  It never holds more than
\* buffer_size lines; it holds the most recent min(k, buffer_size) of the k
\* lines pushed since it was last cleared, in push order (so a push at
\* capacity removed exactly the oldest line); a drain copies exactly these
\* lines and leaves BUFFER empty, so that a drain right after it copies
\* nothing.
C7_BoundedDropOldest ==
    /\ Len(BUFFER) <= buffer_size
    /\ Len(BUFFER) = Min(hist.since, buffer_size)
    /\ \A i \in 1..Len(BUFFER) : BUFFER[i].n = hist.published - Len(BUFFER) + i
    /\ \A t \in Ipc :
           /\ pc[t] = "drain_clear" => local[t] = BUFFER
           /\ pc[t] = "drain_return"
                  => /\ BUFFER = <<>>
                     /\ Len(local[t]) <= buffer_size
                     /\ Increasing(Numbers(local[t]))

\* C7 witness: buffer_size + 1 lines were pushed and a drain returns the
\* last buffer_size of them.
C7_Witness ==
    \E t \in Ipc :
        /\ pc[t] = "drain_return"
        /\ hist.published = buffer_size + 1
        /\ Numbers(local[t]) = [i \in 1..buffer_size |-> i + 1]
        /\ hist.evicted = {1}

\* The numbers of the lines a drain is about to return.
InFlight(t) == IF pc[t] = "drain_return" THEN Numbers(local[t]) ELSE <<>>
AllReturned == hist.delivered \o InFlight("ui1") \o InFlight("ui2")

\* C8: a drain is an atomic copy-and-clear under every interleaving with
\* the worker's pushes.  No line is returned by two drains and the drains'
\* results, concatenated, follow the push order; every line pushed is in
\* BUFFER, was removed by overflow or was returned; and when a drain
\* returns, every line pushed before and not removed by overflow has been
\* returned.
C8_DrainAtomic ==
    /\ Increasing(AllReturned)
    /\ 1..hist.published = Range(AllReturned) \cup hist.evicted \cup Range(Numbers(BUFFER))
    /\ Range(AllReturned) \cap Range(Numbers(BUFFER)) = {}
    /\ hist.evicted \cap (Range(AllReturned) \cup Range(Numbers(BUFFER))) = {}
    /\ \A t \in Ipc :
           pc[t] = "drain_return"
               => 1..hist.published = Range(AllReturned) \cup hist.evicted

\* C8 witness: a drain that returns lines holds the lock the worker waits
\* for, after an earlier drain returned lines too.
C8_Witness ==
    \E t \in Ipc :
        /\ pc[t] = "drain_return"
        /\ local[t] # <<>>
        /\ hist.delivered # <<>>
        /\ wpc = "lock_buffer"

\* Logger::start and Logger::stop without the failing file operations.
Toggle(t) ==
    \/ StartCreate(t)
    \/ StartHeader(t)
    \/ StartStoreFile(t)
    \/ StartSetFlag(t)
    \/ StopClearFlag(t)
    \/ StopDropFile(t)

\* The worker on a port that stays open, logging what it decodes.
Acquire(chunks) ==
    \/ OpenOk
    \/ \E chunk \in chunks : WorkerProcess(chunk)
    \/ WorkerLockBuffer
    \/ WorkerPublish
    \/ WorkerLogCheck
    \/ WorkerLogWrite
    \/ WorkerRelease

\* Recording toggled by two frontend threads at once.
NextToggle == Acquire({ShortFrame(0, Pos).bytes}) \/ \E t \in Ipc : Toggle(t)
SpecToggle == Init /\ [][NextToggle]_vars

\* Recording toggled by one frontend thread while the worker logs.
NextLogger == Acquire(BurstChunks \cup {ShortFrame(0, Neg).bytes}) \/ Toggle("ui1")
SpecLogger == Init /\ [][NextLogger]_vars

\* A thread is inside Logger::start or Logger::stop.
InStart(t) == pc[t] \in {"start_header", "start_lock", "start_flag"}
InStop(t) == pc[t] = "stop_lock"

\* C9: the recording flag and the destination handle stay consistent.  In
\* every state in which no Logger::start or Logger::stop call is in
\* progress, recording is true if and only if a handle is stored, for every
\* interleaving of start and stop calls of concurrent callers.
C9_FlagMatchesHandle ==
    (\A t \in Ipc : ~InStart(t) /\ ~InStop(t)) => (recording <=> file # 0)

\* C10: every start yields a fresh log.  Once Logger::start has returned
\* (no start is in progress and its handle is the one stored), log.csv is
\* one header row followed only by rows that were written through that
\* handle, also when recording was active during the start and the worker
\* was appending through the handle stored before.
C10_FreshLogAfterStart ==
    ((\A t \in Ipc : ~InStart(t)) /\ file # 0)
        => /\ Len(log_csv) >= 1
           /\ log_csv[1].line = CsvHeader
           /\ \A i \in 2..Len(log_csv) :
                  log_csv[i].line.kind = "row" /\ log_csv[i].by = file

\* Recording toggled by one frontend thread while the worker logs to a file
\* whose writes may fail.
NextRecord ==
    \/ Acquire(BurstChunks \cup {ShortFrame(0, Neg).bytes})
    \/ WorkerLogFail
    \/ Toggle("ui1")
SpecRecord == Init /\ [][NextRecord]_vars

\* The step in which the worker's log_sample call returns.
LogSampleReturns == wpc \in {"log", "log_write"} /\ wpc' = "publish"

\* C11: after Logger::stop has returned and until the next start, recording
\* is off and no handle is stored, every log_sample call writes nothing and
\* returns Ok, and a second stop changes nothing; a log_sample call that
\* runs while a stop is in progress writes one complete row through the
\* stored handle or writes nothing, and returns Err only when it found the
\* handle still stored (an I/O failure, not the stop).
C11_StopSilencesLog ==
    [][/\ hist'.logger = "stop" => (~recording' /\ file' = 0)
       /\ (hist.logger = "stop" /\ hist'.logger = "stop")
              => UNCHANGED <<recording, file, log_csv, handles>>
       /\ (hist.logger = "stop" /\ LogSampleReturns) => hist'.log_result = "ok"
       /\ (LogSampleReturns /\ \E t \in Ipc : InStop(t))
              => /\ \/ log_csv' = log_csv
                    \/ /\ file # 0
                       /\ log_csv' = WriteAt(log_csv, handles[file],
                                             CsvLine(Head(samples)), file)
                 /\ hist'.log_result = "err" => (file # 0 /\ log_csv' = log_csv)
                 /\ file = 0 => (hist'.log_result = "ok" /\ log_csv' = log_csv)
      ]_vars

\* C11 witness: a stop has returned after a row was logged, a second stop is
\* in progress, and a log_sample call has returned Ok.
C11_Witness ==
    /\ hist.logger = "stop"
    /\ pc["ui1"] = "stop_lock"
    /\ wpc = "publish"
    /\ hist.log_result = "ok"
    /\ Len(log_csv) >= 2

\* The samples a pass returned, read off the packets it decoded.
RECURSIVE KeptOf(_)
KeptOf(notes) ==
    IF notes = <<>> THEN <<>>
    ELSE (IF Head(notes).retained
          THEN <<[Head(notes).sample EXCEPT !.is_trigger = Head(notes).point]>>
          ELSE <<>>) \o KeptOf(Tail(notes))

\* C12: a failing log append never disturbs acquisition.  When log_sample
\* returns Err for a sample, the sample is already the last line of BUFFER,
\* the samples of the pass not yet published are still to be published, the
\* worker stays in Streaming and the processor is unchanged; and when the
\* pass ends, every sample it returned has been published.
C12_AppendFailureHarmless ==
    [][/\ (LogSampleReturns /\ hist'.log_result = "err")
              => /\ BUFFER # <<>>
                 /\ BUFFER[Len(BUFFER)].text = FormatLine(Head(samples))
                 /\ BUFFER' = BUFFER
                 /\ samples' = Tail(samples)
                 /\ wstate = "Streaming" /\ wstate' = "Streaming"
                 /\ UNCHANGED procVars
       /\ (wpc # "idle" /\ wpc' = "idle")
              => /\ hist.published - hist.base = Len(KeptOf(seen))
                 /\ wstate' = "Streaming"
      ]_vars

\* C12 witness: an append has just failed for the first sample of a pass
\* that returned two.
C12_Witness ==
    /\ hist.log_result = "err"
    /\ wpc = "publish"
    /\ Len(samples) = 1
    /\ hist.published - hist.base = 1
    /\ wstate = "Streaming"

\* Acquisition under a frontend that sends every possible channel request.
AllRequests == [Channels -> BOOLEAN]
NextChannels ==
    \/ OpenOk
    \/ \E chunk \in FrameChunks : WorkerProcess(chunk)
    \/ WorkerLockBuffer
    \/ WorkerPublish
    \/ WorkerLogCheck
    \/ WorkerRelease
    \/ \E t \in Ipc, channels \in AllRequests : SetActiveChannels(t, channels)
SpecChannels == Init /\ [][NextChannels]_vars

ActiveSet == {i \in Channels : active_channels[i]}
Requested == {i \in Channels : hist.request[i]}
Lowest(S) == CHOOSE i \in S : \A j \in S : i <= j

\* C13: after any sequence of set_active_channels calls, starting from the
\* initial set {0, 1}, at most 2 of the 4 channels are active; a request
\* with more than 2 true flags leaves exactly its two lowest channels
\* active, and a request with 2 or fewer true flags is stored unchanged.
C13_AtMostTwoActive ==
    /\ Cardinality(ActiveSet) <= 2
    /\ hist.configs = 0 => ActiveSet = {0, 1}
    /\ Cardinality(Requested) > 2
           => ActiveSet = {Lowest(Requested), Lowest(Requested \ {Lowest(Requested)})}
    /\ Cardinality(Requested) <= 2 => active_channels = hist.request

\* C13 witness: a second request, for all four channels, left channels 0
\* and 1 active.
C13_Witness ==
    /\ hist.configs = 2
    /\ Requested = Channels
    /\ ActiveSet = {0, 1}

\* Acquisition of bursts in which a frame of one channel precedes a frame of
\* another, under a frontend that configures the trigger and the channels.
GateChunks ==
    BurstChunks \cup {LongFrame(1, Neg).bytes \o ShortFrame(0, Pos).bytes,
                      ShortFrame(2, Pos).bytes}
NextGate ==
    \/ OpenOk
    \/ \E chunk \in GateChunks : WorkerProcess(chunk)
    \/ WorkerLockBuffer
    \/ WorkerPublish
    \/ WorkerLogCheck
    \/ WorkerRelease
    \/ Configure("ui1")
SpecGate == Init /\ [][NextGate]_vars

\* Packet n of the last pass is of a channel that is active.
OnActive(n) == active_channels[seen[n].sample.channel]

\* Packet n of the last pass is of an active channel and, if the trigger is
\* enabled, it or an earlier packet of an active channel in the pass is a
\* trigger point.
Gated(n) ==
    /\ OnActive(n)
    /\ \/ ~trigger_config.enabled
       \/ \E j \in 1..n : OnActive(j) /\ IsTriggerPoint(seen[j].sample, trigger_config)

\* C14: a sample of a channel that is inactive during its decode pass is
\* discarded before the trigger is evaluated.  While the worker holds the
\* processor for a pass: the samples returned are those of active channels
\* that the gate lets through, the gate being opened by samples of active
\* channels only; the counters grew by the samples returned and not at all
\* for an inactive channel; and the samples waiting to be published and the
\* lines pushed in the pass are of active channels.
C14_InactiveDiscarded ==
    wpc # "idle"
        => /\ \A n \in 1..Len(seen) : seen[n].retained <=> Gated(n)
           /\ wpc = "lock_buffer" => samples = KeptOf(seen)
           /\ \A k \in 1..Len(samples) : active_channels[samples[k].channel]
           /\ \A i \in 1..Len(BUFFER) :
                  BUFFER[i].n > hist.base => active_channels[BUFFER[i].text[1] - 1]
           /\ samples_received - hist.received0 = Len(KeptOf(seen))
           /\ \A c \in Channels :
                  channel_counts[c] - hist.counts0[c]
                      = Cardinality({n \in 1..Len(seen) : Gated(n) /\ seen[n].sample.channel = c})

\* C14 witness: with the trigger enabled on an inactive channel, a pass
\* decoded a sample of that channel satisfying the comparison and then a
\* sample of an active channel, and returned nothing.
C14_Witness ==
    /\ wpc = "lock_buffer"
    /\ trigger_config.enabled
    /\ ~active_channels[trigger_config.channel]
    /\ Len(seen) = 2
    /\ Crosses(seen[1].sample, trigger_config)
    /\ OnActive(2)
    /\ samples = <<>>

\* The frame of a packet is a 6-byte frame carrying the TRIGGER marker.
WireFlag(packet) == Len(packet) = 6 /\ packet[5] = TRIGGER_BYTE

\* The samples of the active channels among the packets of a pass, each
\* with the flag of its frame.
RECURSIVE ActiveOf(_)
ActiveOf(notes) ==
    IF notes = <<>> THEN <<>>
    ELSE (IF active_channels[Head(notes).sample.channel]
          THEN <<[Head(notes).sample EXCEPT !.is_trigger = WireFlag(Head(notes).packet)]>>
          ELSE <<>>) \o ActiveOf(Tail(notes))

\* The samples of the pass that the worker has not pushed yet.
Pending ==
    IF wpc \in {"log", "log_write"} THEN Tail(samples) ELSE samples

\* C15: with the trigger disabled, every decoded sample of an active channel
\* is returned by process_packets and published to BUFFER, and its
\* is_trigger flag is true exactly when its frame is a 6-byte frame with
\* the TRIGGER marker.  During a pass of the worker the samples returned are
\* those of the active channels, in order and with that flag; each is
\* pushed or still waiting to be pushed, the lines pushed are their
\* formatted values, and when the loop is over all were pushed.
C15_DisabledPassesAll ==
    (wpc # "idle" /\ ~trigger_config.enabled)
        => LET all == ActiveOf(seen)
               done == hist.published - hist.base
           IN  /\ wpc = "lock_buffer" => samples = all
               /\ done + Len(Pending) = Len(all)
               /\ Pending = SubSeq(all, done + 1, Len(all))
               /\ \A i \in 1..Len(BUFFER) :
                      BUFFER[i].n > hist.base
                          => BUFFER[i].text = FormatLine(all[BUFFER[i].n - hist.base])

\* C15 witness: with the trigger disabled by a configure_trigger call, a
\* pass decoded a marked 6-byte frame and a 5-byte frame of active channels
\* and both samples were pushed.
C15_Witness ==
    /\ wpc = "publish"
    /\ samples = <<>>
    /\ ~trigger_config.enabled
    /\ hist.configs >= 1
    /\ Len(seen) = 2
    /\ WireFlag(seen[1].packet) /\ seen[1].point
    /\ ~WireFlag(seen[2].packet) /\ ~seen[2].point
    /\ hist.published - hist.base = 2

\* Line i of log.csv is a row written through handle h.
RowBy(i, h) == log_csv[i].by = h /\ h # 0 /\ log_csv[i].line.kind = "row"

\* C16: samples reach both sinks in decode order.  The lines of BUFFER are
\* consecutive records in push order, and those of the last pass are the
\* samples the pass returned, in order; the rows written to log.csv through
\* one handle appear in the order of their records, and those of the last
\* pass are the rows of its samples; and while a sample is being appended
\* it is the record pushed last, the next one not being pushed yet.
C16_DecodeOrder ==
    LET kept == KeptOf(seen)
        done == hist.published - hist.base
    IN  /\ \A i \in 1..Len(BUFFER) :
               /\ BUFFER[i].n = hist.published - Len(BUFFER) + i
               /\ BUFFER[i].n > hist.base
                      => /\ BUFFER[i].n - hist.base <= Len(kept)
                         /\ BUFFER[i].text = FormatLine(kept[BUFFER[i].n - hist.base])
        /\ Len(hist.rown) = Len(log_csv)
        /\ \A i \in 1..Len(log_csv) : hist.rown[i].by = log_csv[i].by
        /\ \A i, j \in 1..Len(log_csv) :
               (i < j /\ log_csv[i].by = log_csv[j].by /\ RowBy(i, log_csv[i].by)
                      /\ RowBy(j, log_csv[j].by))
                   => hist.rown[i].line < hist.rown[j].line
        /\ \A i \in 1..Len(log_csv) :
               RowBy(i, log_csv[i].by)
                   => /\ hist.rown[i].line \in 1..hist.published
                      /\ hist.rown[i].line > hist.base
                             => log_csv[i].line = CsvLine(kept[hist.rown[i].line - hist.base])
        /\ wpc \in {"log", "log_write"}
               => /\ done \in 1..Len(kept)
                  /\ Head(samples) = kept[done]
                  /\ BUFFER[Len(BUFFER)].n = hist.published
                  /\ BUFFER[Len(BUFFER)].text = FormatLine(Head(samples))
                  /\ \A i \in 1..Len(log_csv) :
                         RowBy(i, log_csv[i].by) => hist.rown[i].line < hist.published
        /\ wpc = "publish" => samples = SubSeq(kept, done + 1, Len(kept))

\* C16 witness: the two samples of one pass were pushed and appended, and
\* their rows follow the header in log.csv.
C16_Witness ==
    /\ wpc = "publish"
    /\ samples = <<>>
    /\ hist.published - hist.base = 2
    /\ Len(log_csv) = 3
    /\ file # 0
    /\ RowBy(2, file) /\ RowBy(3, file)
    /\ hist.rown[2].line = hist.published - 1
    /\ hist.rown[3].line = hist.published
    /\ Len(BUFFER) >= 2

\* decode_packet called on one frame.
ChannelBytes == {0, 1, 2, 3, 4, 7, 85, 170, 252, 255}
HighBytes == {0, 1, 127, 128, 255}
LowBytes == {0, 1, 128, 255}
DecodeFrames ==
    {<<START_BYTE, c, hi, lo, STOP_BYTE>> :
        c \in ChannelBytes, hi \in HighBytes, lo \in LowBytes}
      \cup {<<START_BYTE, c, hi, lo, TRIGGER_BYTE, STOP_BYTE>> :
        c \in ChannelBytes, hi \in HighBytes, lo \in LowBytes}

InitDecode ==
    /\ InitProgram
    /\ items = <<>>
    /\ wire \in DecodeFrames
    /\ out = <<>>
    /\ calls = 0

DecodeCall ==
    /\ calls = 0
    /\ out' = decode_packet(wire)
    /\ calls' = 1
    /\ UNCHANGED <<procVars, sinkVars, logVars, cmd_port, workerVars, ipcVars,
                   items, wire, seen, hist>>

NextDecode == DecodeCall
SpecDecode == InitDecode /\ [][NextDecode]_vars

\* Bit k of a byte.
Bit(b, k) == (b \div (2 ^ k)) % 2

\* C17: the fields of every frame decode as specified.  The channel is the
\* low 2 bits of the channel byte, raw_value is 256 * value-high +
\* value-low, and the voltage is the signed 16-bit reading of raw_value
\* times 10/32768 V (voltages are counted in 1/32768 V): raw 0x8000 gives
\* -10 V, raw 0x7FFF gives 32767 * 10/32768 V, and every raw value from
\* 0x8000 up gives a negative voltage.
C17_FieldsDecoded ==
    calls = 1
        => /\ Len(out) = 1
           /\ LET sample == out[1]
                  raw == 256 * wire[3] + wire[4]
                  signed == raw - 65536 * (raw \div 32768)
              IN  /\ sample.channel \in 0..3
                  /\ sample.channel = Bit(wire[2], 0) + 2 * Bit(wire[2], 1)
                  /\ sample.raw_value = raw
                  /\ sample.voltage = signed * 10
                  /\ raw = 32768 => sample.voltage = -10 * 32768
                  /\ raw = 32767 => sample.voltage = 32767 * 10
                  /\ raw >= 32768 => sample.voltage < 0
                  /\ raw < 32768 => sample.voltage >= 0

\* C17 witness: a frame with channel byte 0xFF and value bytes 0x80 0x00
\* was decoded as channel 3 at -10 V.
C17_Witness ==
    /\ calls = 1
    /\ wire[2] = 255 /\ wire[3] = 128 /\ wire[4] = 0
    /\ Len(out) = 1
    /\ out[1].channel = 3
    /\ out[1].raw_value = 32768
    /\ out[1].voltage = -327680

\* The worker on a port that times out, fails and is opened again, while
\* one frontend thread polls the display buffer and another configures the
\* trigger.
WorkerChunks == {ShortFrame(0, Pos).bytes} \cup PartChunks
WorkerTriggers == {c \in TriggerConfigs : c.enabled /\ c.channel = 0 /\ c.rising_edge}
WorkerSteps ==
    \/ OpenOk
    \/ OpenFail
    \/ Retry
    \/ ReadNothing
    \/ ReadError
    \/ \E chunk \in WorkerChunks : WorkerProcess(chunk)
    \/ WorkerLockBuffer
    \/ WorkerPublish
    \/ WorkerLogCheck
    \/ WorkerRelease
NextWorker ==
    \/ WorkerSteps
    \/ Drain("ui1")
    \/ \E config \in WorkerTriggers : ConfigureTrigger("ui2", config)
    \/ \E opened \in BOOLEAN : SendCommand("ui2", opened)
SpecWorker == Init /\ [][NextWorker]_vars

\* The transitions of the worker's state machine.
WorkerTransitions ==
    {<<"Opening", "Streaming">>, <<"Opening", "Retrying">>,
     <<"Streaming", "Retrying">>, <<"Retrying", "Opening">>}

\* The worker can take a step, or it waits for a lock held by a frontend
\* thread that can take a step.
WorkerCanGoOn ==
    \/ ENABLED WorkerSteps
    \/ \E t \in Ipc : /\ wpc = "idle" /\ proc_lock = t
                       /\ ENABLED (\E opened \in BOOLEAN : SendCommand(t, opened))
    \/ \E t \in Ipc : wpc = "lock_buffer" /\ buf_lock = t /\ ENABLED Drain(t)

\* C18: the worker follows Opening -> Streaming -> Retrying -> Opening and
\* has no terminal state.  A failed open leads to Retrying, Retrying leads
\* to Opening, a read that times out or returns 0 bytes leaves the worker in
\* Streaming and the decoder and both sinks as they were, any other read
\* error leads to Retrying; and in every reachable state the worker can go
\* on.
C18_WorkerStateMachine ==
    /\ []WorkerCanGoOn
    /\ [][/\ wstate \in {"Opening", "Streaming", "Retrying"}
          /\ wstate' # wstate => <<wstate, wstate'>> \in WorkerTransitions
          /\ (hist'.last_read = "timeout" /\ hist.last_read # "timeout")
                 => /\ wstate = "Streaming" /\ wstate' = "Streaming"
                    /\ UNCHANGED <<procVars, sinkVars, logVars, samples, seen>>
          /\ (hist'.last_read = "error" /\ hist.last_read # "error")
                 => wstate = "Streaming" /\ wstate' = "Retrying"
         ]_vars

\* C18 witness: the port was opened, a read failed, the worker retried and
\* opened the port again, and a read has timed out.
C18_Witness ==
    /\ hist.connects = 2
    /\ wstate = "Streaming"
    /\ hist.last_read = "timeout"

\* C19: shared-state locks are never held across I/O.  No thread is about
\* to write a row to the log file through the stored handle, or to open the
\* serial port and write the trigger command, while it holds the lock of
\* BUFFER or the lock of the processor.
C19_NoLockAcrossIO ==
    /\ (wpc = "log_write" /\ file # 0 /\ CanLock(file_lock))
           => (buf_lock # "worker" /\ proc_lock # "worker")
    /\ \A t \in Ipc : pc[t] = "send_command" => proc_lock # t

\* Frames, stray bytes and frames with an inserted byte, fed in two calls
\* split at any point.
PassItems == LeadFrames \cup Garbages \cup {Corrupt(f, x) : f \in LeadFrames, x \in {7, 170}}
InitPasses == InitStream(SeqsUpTo(PassItems, MaxItems))
NextPasses == FeedPrefix \/ FeedRest
SpecPasses == InitPasses /\ [][NextPasses]_vars

\* The bytes added so far.
FedBytes == SubSeq(Flatten(items), 1, Fed)

\* C20: process_packets returns on every buffer content; it removes bytes
\* from the head of the buffer only, and on return fewer than 5 bytes
\* remain: after every add_bytes + process_packets pair the frame buffer is
\* the tail of the bytes added so far and holds at most 4 bytes.
C20_PassLeavesUnderFive ==
    /\ calls >= 1 => Len(buffer) < 5
    /\ Len(buffer) <= Fed
    /\ buffer = SubSeq(FedBytes, Fed - Len(buffer) + 1, Fed)

\* C20 witness: after two passes over a stream holding a frame with an
\* inserted byte, 4 bytes are left in the buffer and a sample was returned.
C20_Witness ==
    /\ calls = 2
    /\ Len(buffer) = 4
    /\ Len(out) >= 1
    /\ \E i \in 1..Len(items) : items[i].kind = "corrupt"

====
